---- MODULE Spec2Model ----
(***************************************************************************)
(* A model of the retrieval pipeline of know-rag-nest: the sentence        *)
(* chunkers (TextContextService.chunkText, PdfService.chunkText), the      *)
(* tiered embedder (EmbeddingsService.generateEmbedding, both variants),   *)
(* the query services (AiQueryService.processQuery / queryWithContext and  *)
(* the controllers in front of them) and the ingestion step                *)
(* (processAndStoreChunks -> MilvusService.insertChunks, with the report  *)
(* made to the run's caller) and MilvusService.createCollection.           *)
(*                                                                         *)
(* Strings are sequences of one-character strings.  The module has one     *)
(* set of variables and one specification per component; a component's     *)
(* specification leaves the variables of the other components at their     *)
(* idle values.                                                            *)
(***************************************************************************)
EXTENDS Integers, Sequences, FiniteSets, TLC

VARIABLES
  \* ---- chunker ----
  cText,       \* the text handed to chunkText
  cSize,       \* chunkSize
  cOverlap,    \* overlap (text-file chunker only)
  cWho,        \* which chunker ran: "none", "text" (TextContextService), "pdf" (PdfService)
  cChunks,     \* the chunk texts returned
  \* ---- embedder ----
  eVariant,    \* "v1536" (embeddings.service.ts) or "v384" (app.module.ts)
  eText,       \* the text argument, or Undefined
  ePc,         \* position inside generateEmbedding
  eAttempt,    \* the for-loop's attempt counter
  eResult,     \* the vector returned (<<>> before the return)
  eTier,       \* the tier that produced eResult ("none" before the return)
  eLog,        \* the tiers invoked and waits made, in order
  \* ---- query ----
  qVariant,    \* "local" (part_001 processQuery), "context" (part_000 queryWithContext), "gemini" (ai-query.service.ts processQuery)
  qEntry,      \* controller entry point
  qQuestion,   \* the question as received by the controller
  qPc,         \* position inside the request
  qStore,      \* the texts of the records the collection holds
  qHits,       \* the hits searchSimilar returned
  qContext,    \* the context string (as a sequence of texts joined)
  qCalls,      \* the downstream calls made, in order
  qOut,        \* the response of the request
  qMilvus,     \* the MilvusService behind the request: "m1536" (milvus.service.ts) or "m384" (ai-query.service.ts)
  \* ---- ingestion ----
  iWho,        \* "text" (TextContextService) or "pdf" (PdfService)
  iPc,         \* position inside processAndStoreChunks
  iChunks,     \* the texts of the chunks handed to processAndStoreChunks
  iTier,       \* the embedder tier that serves this run: "dedicated" or "simple"
  iEmbeddings, \* generateEmbeddings' array embeddings
  iNext,       \* position in iChunks of the first text of the current group (the loop's i + 1)
  iPending,    \* the positions whose generateEmbedding call is outstanding
  iBatch,      \* the vectors of the current group resolved so far, by position
  iIndex,      \* the records the collection holds
  iInserts,    \* the batches handed to MilvusService.insertChunks, in order
  iDelays,     \* how many inter-group delays generateEmbeddings has waited out
  iReport,     \* what the caller of the run is told: "none" (not yet), "success", "error"
  \* ---- collection ----
  mPc,         \* position inside MilvusService.createCollection
  mCalls,      \* how many times createCollection has been called
  mFound,      \* collectionExists of the current call ("unknown" before listCollections answers)
  mOps,        \* the client operations the current call has completed, in order
  mExists,     \* the server holds the collection
  mDim,        \* the dimension of the collection's vector field (0 while absent)
  mIndexed,    \* the collection has its vector index
  mLoaded,     \* the collection is loaded
  mRecords,    \* how many records the collection holds
  \* ---- PDF documents ----
  pPc,         \* position inside PdfService.processPdf ("idle" between calls)
  pText,       \* pdfData.text of the current call
  pDoc,        \* the document record of the current call
  pChunks,     \* the chunks of the current call
  pOps,        \* what the current call has invoked, in order
  pResult,     \* how the last call ended: "none", "document", "error"
  pDocs,       \* the registry this.documents, as the set of its values
  pStored,     \* the records the index holds: the ids of the chunks inserted
  pNextId,     \* how many document ids have been generated
  pDels,       \* how many times deleteDocument has been called
  pDelId,      \* the id given to the last deleteDocument
  pDelResult,  \* what the last deleteDocument returned
  \* ---- repeated ingestion of the text file ----
  rCalls,      \* how many times reprocessTextFile has been called
  rRuns,       \* how many of those runs stored their records
  \* ---- repeated calls of the fallback tier ----
  hCalls       \* the calls of generateSimpleEmbedding so far: text and vector

chunkVars == <<cText, cSize, cOverlap, cWho, cChunks>>
embedVars == <<eVariant, eText, ePc, eAttempt, eResult, eTier, eLog>>
queryVars ==
  <<qVariant, qEntry, qQuestion, qPc, qStore, qHits, qContext, qCalls, qOut, qMilvus>>
ingestVars ==
  <<iWho, iPc, iChunks, iTier, iEmbeddings, iNext, iPending, iBatch, iIndex, iInserts,
    iDelays, iReport>>
collVars == <<mPc, mCalls, mFound, mOps, mExists, mDim, mIndexed, mLoaded, mRecords>>
pdfVars ==
  <<pPc, pText, pDoc, pChunks, pOps, pResult, pDocs, pStored, pNextId, pDels,
    pDelId, pDelResult>>
reprocessVars == <<rCalls, rRuns>>
simpleVars == <<hCalls>>
vars ==
  <<chunkVars, embedVars, queryVars, ingestVars, collVars, pdfVars, reprocessVars,
    simpleVars>>

(***************************************************************************)
(* Bounds of the model.                                                    *)
(***************************************************************************)
MaxTextLen == 5
MaxChunkSize == 4
MaxOverlap == 2
MaxStore == 2
MaxHits == 2
MaxChunks == 6
MaxCalls == 3
MaxDocs == 2

(***************************************************************************)
(* Strings.                                                                *)
(***************************************************************************)
Chars == {"a", "b", ".", "!", " "}

Min(a, b) == IF a <= b THEN a ELSE b
Max(a, b) == IF a >= b THEN a ELSE b

StringsUpTo(n) == UNION {[1..k -> Chars] : k \in 0..n}

\* String.prototype.slice(-n) for n > 0: the last n characters, the whole string when it is shorter
SliceLast(s, n) == SubSeq(s, Max(1, Len(s) - n + 1), Len(s))

IsSpace(c) == c = " "

RECURSIVE TrimLeft(_)
TrimLeft(s) == IF s # <<>> /\ IsSpace(Head(s)) THEN TrimLeft(Tail(s)) ELSE s

RECURSIVE TrimRight(_)
TrimRight(s) ==
  IF s # <<>> /\ IsSpace(s[Len(s)]) THEN TrimRight(SubSeq(s, 1, Len(s) - 1)) ELSE s

\* String.prototype.trim
Trim(s) == TrimRight(TrimLeft(s))

\* Array.prototype.join
RECURSIVE Join(_, _)
Join(strs, sep) ==
  IF strs = <<>> THEN <<>>
  ELSE IF Len(strs) = 1 THEN Head(strs)
  ELSE Head(strs) \o sep \o Join(Tail(strs), sep)

\* the character class of the regular expression /[.!?]+/
IsTerminal(c) == c \in {".", "!", "?"}

\* text.split(/[.!?]+/): the pieces between the runs of terminal characters,
\* the empty pieces at the ends included ("a." gives "a" and "")
RECURSIVE SplitFrom(_, _, _, _)
SplitFrom(s, pieces, cur, inRun) ==
  IF s = <<>> THEN Append(pieces, cur)
  ELSE IF IsTerminal(Head(s))
       THEN IF inRun THEN SplitFrom(Tail(s), pieces, cur, TRUE)
            ELSE SplitFrom(Tail(s), Append(pieces, cur), <<>>, TRUE)
       ELSE SplitFrom(Tail(s), pieces, Append(cur, Head(s)), FALSE)

SplitSentences(s) == SplitFrom(s, <<>>, <<>>, FALSE)

\* .filter((sentence) => sentence.trim().length > 0)
NonBlank(pieces) == SelectSeq(pieces, LAMBDA p : Len(Trim(p)) > 0)

Sentences(text) == NonBlank(SplitSentences(text))

(***************************************************************************)
(* TextContextService.chunkText.                                           *)
(* The for loop over the sentences is the recursion of ChunkLoop; its      *)
(* state is (chunks, currentChunk).                                        *)
(***************************************************************************)
ChunkAppend(currentChunk, trimmedSentence) ==
  currentChunk \o (IF currentChunk # <<>> THEN <<".", " ">> ELSE <<>>) \o trimmedSentence

ChunkFits(currentChunk, trimmedSentence, chunkSize) ==
  Len(currentChunk) + Len(trimmedSentence) <= chunkSize

\* the chunk list after "if (currentChunk) chunks.push(currentChunk + '.')"
ChunkPush(chunks, currentChunk) ==
  IF currentChunk # <<>> THEN Append(chunks, currentChunk \o <<".">>) ELSE chunks

\* ChunkSeed with the sentence that overflowed left out of the seeded chunk
ChunkSeed_DropsSentence(chunks, trimmedSentence, overlap) ==
  IF overlap > 0 /\ Len(chunks) > 0
  THEN SliceLast(chunks[Len(chunks)], overlap)
  ELSE trimmedSentence

\* the seed of the next chunk: the overlap taken from the last pushed chunk, or the sentence alone
ChunkSeed(chunks, trimmedSentence, overlap) ==
  IF overlap > 0 /\ Len(chunks) > 0
  THEN SliceLast(chunks[Len(chunks)], overlap) \o <<" ">> \o trimmedSentence
  ELSE trimmedSentence

RECURSIVE ChunkLoop(_, _, _, _, _)
ChunkLoop(sentences, chunks, currentChunk, chunkSize, overlap) ==
  IF sentences = <<>> THEN ChunkPush(chunks, currentChunk)
  ELSE LET trimmedSentence == Trim(Head(sentences)) IN
       IF ChunkFits(currentChunk, trimmedSentence, chunkSize)
       THEN ChunkLoop(Tail(sentences), chunks,
                      ChunkAppend(currentChunk, trimmedSentence), chunkSize, overlap)
       ELSE LET pushed == ChunkPush(chunks, currentChunk) IN
            ChunkLoop(Tail(sentences), pushed,
                      ChunkSeed(pushed, trimmedSentence, overlap), chunkSize, overlap)

chunkText(text, chunkSize, overlap) ==
  ChunkLoop(Sentences(text), <<>>, <<>>, chunkSize, overlap)

(***************************************************************************)
(* PdfService.chunkText (the texts of the ChunkData it returns; the ids    *)
(* are documentId_chunk_<position>).                                       *)
(***************************************************************************)
PdfOverflows(currentChunk, trimmedSentence, chunkSize) ==
  Len(currentChunk) + Len(trimmedSentence) > chunkSize /\ Len(currentChunk) > 0

\* "Add the last chunk if it's not empty"
PdfLast(chunks, currentChunk) ==
  IF Len(Trim(currentChunk)) > 0 THEN Append(chunks, Trim(currentChunk)) ELSE chunks

\* "If no chunks were created, create one with the full text"
PdfWholeText(chunks, text) ==
  IF Len(chunks) = 0 THEN <<Trim(text)>> ELSE chunks

RECURSIVE PdfLoop(_, _, _, _)
PdfLoop(sentences, chunks, currentChunk, chunkSize) ==
  IF sentences = <<>> THEN PdfLast(chunks, currentChunk)
  ELSE LET trimmedSentence == Trim(Head(sentences)) IN
       IF PdfOverflows(currentChunk, trimmedSentence, chunkSize)
       THEN PdfLoop(Tail(sentences), Append(chunks, Trim(currentChunk)),
                    trimmedSentence, chunkSize)
       ELSE PdfLoop(Tail(sentences), chunks,
                    ChunkAppend(currentChunk, trimmedSentence), chunkSize)

PdfChunkText(text, chunkSize) ==
  PdfWholeText(PdfLoop(Sentences(text), <<>>, <<>>, chunkSize), text)

(***************************************************************************)
(* EmbeddingsService.  A vector is a sequence of integers.  The code's     *)
(* floating-point components are kept as exact integer numerators: the     *)
(* final division by the magnitude scales every component of a vector by   *)
(* the same positive factor and is not modelled.                           *)
(***************************************************************************)
D1536 == 1536
D384 == 384
Retries == 3
LlamaWanted == 100
LlamaMinimum == 50
LcgMultiplier == 9301
LcgIncrement == 49297
LcgModulus == 233280

\* the dimension the variant's comments and fallback tier fix
DimOf(variant) == IF variant = "v1536" THEN D1536 ELSE D384

\* str.charCodeAt(i)
CharCode(c) ==
  CASE c = "a" -> 97 [] c = "b" -> 98 [] c = "." -> 46 [] c = "!" -> 33
    [] c = "?" -> 63 [] c = " " -> 32

\* ToInt32 of 31 * hash + char, which is what
\*   hash = (hash << 5) - hash + char; hash = hash & hash
\* leaves in hash (both are the signed 32-bit residue of 31 * hash + char).
\* The product is formed on 16-bit halves so that no intermediate value
\* leaves the 32-bit range.
HashStep(hash, char) ==
  LET lo == hash % 65536
      hi == hash \div 65536
      t == 31 * lo + char
      hi2 == ((31 * hi + (t \div 65536) + 32768) % 65536) - 32768
  IN hi2 * 65536 + (t % 65536)

RECURSIVE HashFrom(_, _)
HashFrom(str, hash) ==
  IF str = <<>> THEN hash ELSE HashFrom(Tail(str), HashStep(hash, CharCode(Head(str))))

\* Math.abs
Abs(x) == IF x < 0 THEN 0 - x ELSE x

simpleHash(str) == Abs(HashFrom(str, 0))

\* seed = (seed * 9301 + 49297) % 233280, with the product split as
\* 9000 * a + 301 * a on the residue a of the seed so that it stays in range
LcgStep(seed) ==
  LET a == seed % LcgModulus
  IN (((a * 9000) % LcgModulus) + a * (LcgMultiplier - 9000) + LcgIncrement) % LcgModulus

\* the seeds of n consecutive iterations of the loop, starting after seed
RECURSIVE LcgRun(_, _)
LcgRun(seed, n) ==
  IF n = 0 THEN <<>>
  ELSE IF n = 1 THEN <<LcgStep(seed)>>
  ELSE LET h == n \div 2
           left == LcgRun(seed, h)
       IN left \o LcgRun(left[h], n - h)

\* generateSimpleEmbedding with a seed that also counts the calls made before
generateSimpleEmbedding_Stateful(text, dim) ==
  LET seeds == LcgRun(simpleHash(text) + Len(hCalls), dim)
  IN [i \in 1..dim |-> 2 * seeds[i] - LcgModulus]

\* embedding[i] = (seed / 233280) * 2 - 1, as the numerator over 233280
generateSimpleEmbedding(text, dim) ==
  LET seeds == LcgRun(simpleHash(text), dim)
  IN [i \in 1..dim |-> 2 * seeds[i] - LcgModulus]

\* the 384 variant's "Ensure we have exactly 384 dimensions"
CoerceTo384(embedding) ==
  IF Len(embedding) > D384 THEN SubSeq(embedding, 1, D384)
  ELSE embedding \o [i \in 1..(D384 - Len(embedding)) |-> 0]

\* a reply of the embedding endpoint for a text: n components, which depend
\* on the text
RemoteVector(text, n) == [i \in 1..n |-> 1 + Len(text)]

\* what the dedicated tier returns for a reply that carries an embedding
DedicatedResult(variant, embedding) ==
  IF variant = "v384" THEN CoerceTo384(embedding) ELSE embedding

\* the Llama tier's vector for the numbers parsed from the response (in
\* tenths): the first 100, each clamped to [-1, 1], repeated cyclically over
\* 1536 components with the drift (i / n) * 0.1; component i (from 0) is
\* (embedding[i % n] * n + i) / (10 * n), kept as its numerator
LlamaClamp(val) == Max(-10, Min(10, val))

LlamaExpand(numbers) ==
  LET embedding == [i \in 1..Min(Len(numbers), LlamaWanted) |-> LlamaClamp(numbers[i])]
      n == Len(embedding)
  IN [i \in 1..D1536 |-> embedding[((i - 1) % n) + 1] * n + (i - 1)]

\* magnitude > 0
NonZero(vector) == ~(\A i \in 1..Len(vector) : vector[i] = 0)

(***************************************************************************)
(* Idle values: what a component's variables hold while another            *)
(* component's specification runs.                                         *)
(***************************************************************************)
\* the JavaScript value undefined where a string is expected: told apart from
\* every string, whose elements are single characters
Undefined == <<"undefined">>

\* a response not yet produced; a confidence is the exact fraction num / den
NoOut ==
  [kind |-> "none", error |-> "", answer |-> "", sources |-> <<>>,
   confidence |-> [num |-> 0, den |-> 1]]

IdleChunk ==
  /\ cText = <<>> /\ cSize = 1 /\ cOverlap = 0 /\ cWho = "none" /\ cChunks = <<>>

IdleEmbed ==
  /\ eVariant = "v1536" /\ eText = <<>> /\ ePc = "idle" /\ eAttempt = 0
  /\ eResult = <<>> /\ eTier = "none" /\ eLog = <<>>

IdleQuery ==
  /\ qVariant = "local" /\ qEntry = "none" /\ qQuestion = <<>> /\ qPc = "idle"
  /\ qStore = <<>> /\ qHits = <<>> /\ qContext = <<>> /\ qCalls = <<>> /\ qOut = NoOut
  /\ qMilvus = "m384"

IdleIngest ==
  /\ iWho = "text" /\ iPc = "idle" /\ iChunks = <<>> /\ iTier = "simple"
  /\ iEmbeddings = <<>> /\ iNext = 1 /\ iPending = {} /\ iBatch = <<>>
  /\ iIndex = <<>> /\ iInserts = <<>> /\ iDelays = 0
  /\ iReport = "none"

IdleColl ==
  /\ mPc = "idle" /\ mCalls = 0 /\ mFound = "unknown" /\ mOps = <<>>
  /\ mExists = FALSE /\ mDim = 0 /\ mIndexed = FALSE /\ mLoaded = FALSE
  /\ mRecords = 0

\* the document record before generateDocumentId has run
NoDoc == [id |-> 0, chunkCount |-> 0]

IdlePdf ==
  /\ pPc = "idle" /\ pText = <<>> /\ pDoc = NoDoc /\ pChunks = <<>> /\ pOps = <<>>
  /\ pResult = "none" /\ pDocs = {} /\ pStored = <<>> /\ pNextId = 0
  /\ pDels = 0 /\ pDelId = 0 /\ pDelResult = "none"

IdleReprocess == rCalls = 0 /\ rRuns = 0

IdleSimple == hCalls = <<>>

\* the components added after the first four are idle
IdleRest == IdlePdf /\ IdleReprocess /\ IdleSimple

(***************************************************************************)
(* The chunkers as a specification: the inputs are drawn in InitChunk,     *)
(* and each action applies one chunker.                                    *)
(***************************************************************************)
InitChunk ==
  /\ cText \in StringsUpTo(MaxTextLen)
  /\ cSize \in 1..MaxChunkSize
  /\ cOverlap \in 0..MaxOverlap
  /\ cWho = "none"
  /\ cChunks = <<>>
  /\ IdleEmbed /\ IdleQuery /\ IdleIngest /\ IdleColl /\ IdleRest

\* TextContextService.loadAndProcessTextFile -> chunkText(content)
TextChunk ==
  /\ cWho = "none"
  /\ cWho' = "text"
  /\ cChunks' = chunkText(cText, cSize, cOverlap)
  /\ UNCHANGED <<cText, cSize, cOverlap, embedVars, queryVars, ingestVars, collVars,
                 pdfVars, reprocessVars, simpleVars>>

\* PdfService.processPdf -> chunkText(textContent, ...), reached only when
\* textContent.trim() is not empty (pdf.service.ts:33-35)
PdfChunk ==
  /\ cWho = "none"
  /\ Len(Trim(cText)) > 0
  /\ cWho' = "pdf"
  /\ cChunks' = PdfChunkText(cText, cSize)
  /\ UNCHANGED <<cText, cSize, cOverlap, embedVars, queryVars, ingestVars, collVars,
                 pdfVars, reprocessVars, simpleVars>>

NextChunk == TextChunk \/ PdfChunk

SpecChunk == InitChunk /\ [][NextChunk]_vars

(***************************************************************************)
(* Claims about the chunkers.                                              *)
(***************************************************************************)
TrimAll(strs) == [i \in 1..Len(strs) |-> Trim(strs[i])]

\* the ways to cut n sentences into m consecutive non-empty groups: e[k] is
\* the position of the last sentence of group k
Cuts(n, m) ==
  {e \in [1..m -> 1..n] :
     /\ m > 0 => e[m] = n
     /\ \A k \in 1..(m - 1) : e[k] < e[k + 1]}

GroupOf(sents, e, k) == SubSeq(sents, IF k = 1 THEN 1 ELSE e[k - 1] + 1, e[k])

\* the chunk the text-file chunker makes of a group: its sentences joined by
\* ". ", closed by ".", after the overlap taken from the chunk before
TextChunkOf(sents, e, k, chunks, overlap) ==
  (IF k > 1 /\ overlap > 0
   THEN SliceLast(chunks[k - 1], overlap) \o <<" ">> ELSE <<>>)
  \o Join(GroupOf(sents, e, k), <<".", " ">>) \o <<".">>

PdfChunkOf(sents, e, k) == Join(GroupOf(sents, e, k), <<".", " ">>)

\* C2: every chunk TextContextService.chunkText returns is non-empty and has
\* at most chunkSize + overlap + 1 characters.
C2_ChunkLengthBound ==
  cWho = "text" =>
    \A k \in 1..Len(cChunks) :
      Len(cChunks[k]) > 0 /\ Len(cChunks[k]) <= cSize + cOverlap + 1

\* C3: chunking drops no sentence: the trimmed non-blank sentences of the
\* input, in input order, are cut into consecutive non-empty groups, one per
\* chunk, and each chunk is exactly its group's sentences (joined by ". ")
\* apart from the injected overlap and the closing ".".
C3_NoSentenceDropped ==
  LET sents == TrimAll(Sentences(cText)) IN
  (cWho # "none" /\ Len(sents) > 0) =>
    \E e \in Cuts(Len(sents), Len(cChunks)) :
      \A k \in 1..Len(cChunks) :
        cChunks[k] = IF cWho = "text"
                     THEN TextChunkOf(sents, e, k, cChunks, cOverlap)
                     ELSE PdfChunkOf(sents, e, k)

\* C3's case: three sentences, the first two sharing a chunk and the third
\* seeding the next chunk after the overlap
C3_Witness ==
  /\ cWho = "text"
  /\ cOverlap > 0
  /\ Len(Sentences(cText)) = 3
  /\ Len(cChunks) = 2

\* C4: a non-empty text with no non-blank sentence (only terminal punctuation
\* and blanks) is still returned as one chunk, the whole trimmed text, by
\* the text-file chunker and by the PDF chunker.
C4_WholeTextChunk ==
  (cWho # "none" /\ Len(Trim(cText)) > 0 /\ Len(Sentences(cText)) = 0) =>
    cChunks = <<Trim(cText)>>

(***************************************************************************)
(* EmbeddingsService.generateEmbedding as a specification.  The text is    *)
(* drawn in InitEmbed (Undefined is what the POST /query handler passes    *)
(* for a body without a question); the replies of the two remote           *)
(* endpoints are drawn when the tier is reached.                           *)
(***************************************************************************)
EmbedTexts == {<<>>, <<"a">>, <<"a", "b">>, <<"b", ".">>}

\* the lengths of the vectors the embedding endpoint may reply with
DedicatedLens == {0, 383, 384, 385, 768, 1536, 1537}


\* the numbers the regular expression finds in a Llama response: how many,
\* and their value in tenths
LlamaCounts == {0, 49, 50, 100, 101}
LlamaValues == {-15, 0, 7}
LlamaNumbers(k, val) == [i \in 1..k |-> val]

InitEmbed ==
  /\ eVariant \in {"v1536", "v384"}
  /\ eText \in EmbedTexts \cup {Undefined}
  /\ ePc = "idle"
  /\ eAttempt = 0
  /\ eResult = <<>>
  /\ eTier = "none"
  /\ eLog = <<>>
  /\ IdleChunk /\ IdleQuery /\ IdleIngest /\ IdleColl /\ IdleRest

\* how a call to a remote endpoint can fail to give a vector.  The request
\* itself fails ("network": connection refused or reset, "timeout": the
\* 30 s / 60 s axios timeout, "http": an error status) or the reply holds no
\* usable vector.
RequestFailures == {"network", "timeout", "http"}

\* the dedicated tier: in the 384 variant text.substring throws before the
\* request when the text is undefined
DedicatedFailures(variant, text) ==
  IF variant = "v384" /\ text = Undefined THEN {"TypeError"}
  ELSE RequestFailures \cup {"noEmbedding"}

\* the Llama tier: text.substring throws before the request when the text
\* is undefined
LlamaFailures(text) ==
  IF text = Undefined THEN {"TypeError"}
  ELSE RequestFailures \cup {"noResponse", "fewNumbers", "zeroVector"}

\* simpleHash(str) reads str.length: a TypeError when str is undefined
SimpleThrows_OnEmptyText(text) == text = Undefined \/ text = <<>>

SimpleThrows(text) == text = Undefined

\* if (attempt < retries)
MayRetry_Inclusive(attempt) == attempt <= Retries

MayRetry(attempt) == attempt < Retries

\* Math.pow(2, attempt) * 1000 milliseconds, in seconds
BackoffSeconds(attempt) == 2 ^ attempt

\* the tier after the dedicated one, were the Llama tier passed over
AfterDedicated_SkipsLlama(variant) == "simple"

\* the tier after the dedicated one
AfterDedicated(variant) == IF variant = "v1536" THEN "llama" ELSE "simple"

\* generateEmbedding(text): for (let attempt = 1; ...
EmbedStart ==
  /\ ePc = "idle"
  /\ ePc' = "dedicated"
  /\ eAttempt' = 1
  /\ UNCHANGED <<eVariant, eText, eResult, eTier, eLog, chunkVars, queryVars, ingestVars, collVars,
                 pdfVars, reprocessVars, simpleVars>>

\* the embedding endpoint replies with an embedding: return it
EmbedDedicatedReturns ==
  /\ ePc = "dedicated"
  /\ ~(eVariant = "v384" /\ eText = Undefined)
  /\ \E n \in DedicatedLens :
       eResult' = DedicatedResult(eVariant, RemoteVector(eText, n))
  /\ eTier' = "dedicated"
  /\ ePc' = "returned"
  /\ eLog' = Append(eLog, [op |-> "dedicated", attempt |-> eAttempt, why |-> "none"])
  /\ UNCHANGED <<eVariant, eText, eAttempt, chunkVars, queryVars, ingestVars, collVars,
                 pdfVars, reprocessVars, simpleVars>>

\* the request fails (network, timeout, HTTP status) or the reply carries no
\* embedding; in the 384 variant text.substring throws first when the text is
\* undefined.  The inner catch logs and the next tier follows.
EmbedDedicatedFallsThrough ==
  /\ ePc = "dedicated"
  /\ ePc' = AfterDedicated(eVariant)
  /\ \E why \in DedicatedFailures(eVariant, eText) :
       eLog' = Append(eLog, [op |-> "dedicated", attempt |-> eAttempt, why |-> why])
  /\ UNCHANGED <<eVariant, eText, eAttempt, eResult, eTier, chunkVars, queryVars, ingestVars, collVars,
                 pdfVars, reprocessVars, simpleVars>>

\* the Llama response holds at least 50 numbers and the expanded vector is
\* not the zero vector: return it
EmbedLlamaReturns ==
  /\ ePc = "llama"
  /\ eText # Undefined
  /\ \E k \in LlamaCounts, val \in LlamaValues :
       /\ k >= LlamaMinimum
       /\ NonZero(LlamaExpand(LlamaNumbers(k, val)))
       /\ eResult' = LlamaExpand(LlamaNumbers(k, val))
  /\ eTier' = "llama"
  /\ ePc' = "returned"
  /\ eLog' = Append(eLog, [op |-> "llama", attempt |-> eAttempt, why |-> "none"])
  /\ UNCHANGED <<eVariant, eText, eAttempt, chunkVars, queryVars, ingestVars, collVars,
                 pdfVars, reprocessVars, simpleVars>>

\* the request fails, the reply has no response text, fewer than 50 numbers
\* are found or the vector has magnitude 0; text.substring throws first when
\* the text is undefined.  The fallback follows.
EmbedLlamaFallsThrough ==
  /\ ePc = "llama"
  /\ ePc' = "simple"
  /\ \E why \in LlamaFailures(eText) :
       eLog' = Append(eLog, [op |-> "llama", attempt |-> eAttempt, why |-> why])
  /\ UNCHANGED <<eVariant, eText, eAttempt, eResult, eTier, chunkVars, queryVars, ingestVars, collVars,
                 pdfVars, reprocessVars, simpleVars>>

\* return this.generateSimpleEmbedding(text)
EmbedSimpleReturns ==
  /\ ePc = "simple"
  /\ ~SimpleThrows(eText)
  /\ eResult' = generateSimpleEmbedding(eText, DimOf(eVariant))
  /\ eTier' = "simple"
  /\ ePc' = "returned"
  /\ eLog' = Append(eLog, [op |-> "simple", attempt |-> eAttempt, why |-> "none"])
  /\ UNCHANGED <<eVariant, eText, eAttempt, chunkVars, queryVars, ingestVars, collVars,
                 pdfVars, reprocessVars, simpleVars>>

\* simpleHash(undefined) throws a TypeError on str.length: the outer catch
EmbedSimpleThrows ==
  /\ ePc = "simple"
  /\ SimpleThrows(eText)
  /\ ePc' = "caught"
  /\ eLog' = Append(eLog, [op |-> "simple", attempt |-> eAttempt, why |-> "TypeError"])
  /\ UNCHANGED <<eVariant, eText, eAttempt, eResult, eTier, chunkVars, queryVars, ingestVars, collVars,
                 pdfVars, reprocessVars, simpleVars>>

\* if (attempt < retries) { wait 2^attempt seconds; continue }
EmbedRetry ==
  /\ ePc = "caught"
  /\ MayRetry(eAttempt)
  /\ eLog' = Append(eLog, [op |-> "wait", attempt |-> eAttempt,
                            seconds |-> BackoffSeconds(eAttempt)])
  /\ eAttempt' = eAttempt + 1
  /\ ePc' = "dedicated"
  /\ UNCHANGED <<eVariant, eText, eResult, eTier, chunkVars, queryVars, ingestVars, collVars,
                 pdfVars, reprocessVars, simpleVars>>

\* throw new Error(`Failed to generate embedding: ...`)
EmbedFail ==
  /\ ePc = "caught"
  /\ ~MayRetry(eAttempt)
  /\ ePc' = "failed"
  /\ UNCHANGED <<eVariant, eText, eAttempt, eResult, eTier, eLog, chunkVars, queryVars, ingestVars, collVars,
                 pdfVars, reprocessVars, simpleVars>>

NextEmbed ==
  \/ EmbedStart
  \/ EmbedDedicatedReturns
  \/ EmbedDedicatedFallsThrough
  \/ EmbedLlamaReturns
  \/ EmbedLlamaFallsThrough
  \/ EmbedSimpleReturns
  \/ EmbedSimpleThrows
  \/ EmbedRetry
  \/ EmbedFail

SpecEmbed == InitEmbed /\ [][NextEmbed]_vars

\* C1: the vector generateEmbedding returns has exactly the dimension of its
\* variant, whichever tier produced it.
C1_ReturnedLengthIsD ==
  ePc = "returned" => Len(eResult) = DimOf(eVariant)


\* the waits of the call so far, in order
Waits == SelectSeq(eLog, LAMBDA e : e.op = "wait")

\* the attempts in which the given tier was invoked, in order
AttemptsOf(op) ==
  LET es == SelectSeq(eLog, LAMBDA e : e.op = op)
  IN [k \in 1..Len(es) |-> es[k].attempt]

\* C12: for a text (a string) the local fallback tier never fails: whatever
\* the remote tiers did, the call never reaches the outer catch, never waits,
\* never leaves its first attempt and never fails; the vector of the fallback
\* tier is the one generateSimpleEmbedding computes from the text.
C12_FallbackNeverFails ==
  eText # Undefined =>
    /\ ePc \notin {"caught", "failed"}
    /\ eAttempt <= 1
    /\ Waits = <<>>
    /\ (ePc = "returned" /\ eTier = "simple") =>
         eResult = generateSimpleEmbedding(eText, DimOf(eVariant))

\* C12's case: both remote tiers failed (the request of the first, the
\* parse of the second) and the fallback returned on the first attempt
C12_Witness ==
  /\ eText # Undefined
  /\ eVariant = "v1536"
  /\ ePc = "returned" /\ eTier = "simple"
  /\ Len(eLog) = 3
  /\ eLog[1].why \in RequestFailures
  /\ eLog[2].why = "fewNumbers"
  /\ Len(eResult) = D1536

\* C13: a wait (and with it a new attempt) follows only a failure of the
\* network/timeout class, and after a tier has returned a vector nothing more
\* is attempted.
C13_RetryOnlyAfterNetworkFailure ==
  /\ \A k \in 2..Len(eLog) :
       eLog[k].op = "wait" => eLog[k - 1].why \in {"network", "timeout"}
  /\ ePc = "returned" => eLog[Len(eLog)].why = "none"

\* C14: the attempt counter never exceeds retries; when the call fails,
\* exactly retries attempts were made (the fallback tier was reached once in
\* each of the attempts 1..retries), the waits are those after the attempts
\* 1..retries-1, of 2^attempt seconds each, and no wait follows the last
\* attempt.
C14_RetriesWithBackoff ==
  /\ eAttempt <= Retries
  /\ ePc = "failed" =>
       /\ eAttempt = Retries
       /\ AttemptsOf("simple") = [k \in 1..Retries |-> k]
       /\ Waits = [k \in 1..(Retries - 1) |->
                     [op |-> "wait", attempt |-> k, seconds |-> 2 ^ k]]
       /\ eLog[Len(eLog)].op # "wait"

\* C14's case: the call has failed after its last attempt
C14_Witness ==
  /\ ePc = "failed"
  /\ Len(Waits) = 2
  /\ Waits[1].seconds = 2 /\ Waits[2].seconds = 4

(***************************************************************************)
(* AiQueryService and the controllers in front of it.  Three variants:     *)
(*   "local"   processQuery of part_001 (answer, sources, confidence),     *)
(*   "gemini"  processQuery of ai-query.service.ts (percentage scale),     *)
(*   "context" queryWithContext of part_000 (answer only, with the scan).  *)
(* A similarity score s is kept as the integer s * ScoreScale.             *)
(***************************************************************************)
TopK == 5
ScanLimit == 100
ScoreScale == 2
Scores == {-1, 0, 1, 2, 3}

CannedAnswer == "I don't have enough context information to answer your question accurately."

\* the text of the i-th record of the collection
StoreText(i) == [j \in 1..i |-> "a"] \o <<".">>
StoreOf(n) == [i \in 1..n |-> StoreText(i)]

SeqsUpTo(S, n) == UNION {[1..k -> S] : k \in 0..n}

\* the replies of client.search: at most topK hits taken from the collection,
\* in descending score order
HitLists(store) ==
  {h \in SeqsUpTo([text : {store[i] : i \in 1..Len(store)}, score : Scores],
                  Min(TopK, MaxHits)) :
     \A k \in 1..(Len(h) - 1) : h[k].score >= h[k + 1].score}

\* JavaScript's !question for a string or undefined
Falsy(question) == question = Undefined \/ question = <<>>

\* searchResults.map((result) => result.text || ...)
HitTexts(hits) == [k \in 1..Len(hits) |-> hits[k].text]

\* .filter((text) => text.length > 0)
NonEmptyTexts(texts) == SelectSeq(texts, LAMBDA t : Len(t) > 0)

\* .join('\n\n')
JoinContext(texts) == Join(texts, <<"\n", "\n">>)

\* result.score || result.distance || 0 (a hit of client.search carries a
\* score and the output fields id and text, no distance)
ScoreOrZero(hit) == IF hit.score # 0 THEN hit.score ELSE 0

\* searchResults.reduce((sum, result) => sum + ..., 0)
RECURSIVE SumScores(_)
SumScores(hits) ==
  IF hits = <<>> THEN 0 ELSE ScoreOrZero(Head(hits)) + SumScores(Tail(hits))

\* calculateConfidence with the lower clamp Math.max(0, .) left out
calculateConfidence_NoFloor(variant, searchResults) ==
  IF Len(searchResults) = 0 THEN [num |-> 0, den |-> 1]
  ELSE LET sum == SumScores(searchResults)
           den == Len(searchResults) * ScoreScale
           top == IF variant = "gemini" THEN 100 ELSE 1
       IN IF sum >= den THEN [num |-> top, den |-> 1]
          ELSE [num |-> top * sum, den |-> den]

\* calculateConfidence: Math.min(1, Math.max(0, avgScore)), and in the
\* percentage variant Math.min(Math.max(avgScore * 100, 0), 100); avgScore is
\* sum / (length * ScoreScale)
calculateConfidence(variant, searchResults) ==
  IF Len(searchResults) = 0 THEN [num |-> 0, den |-> 1]
  ELSE LET sum == SumScores(searchResults)
           den == Len(searchResults) * ScoreScale
           top == IF variant = "gemini" THEN 100 ELSE 1
       IN IF sum <= 0 THEN [num |-> 0, den |-> 1]
          ELSE IF sum >= den THEN [num |-> top, den |-> 1]
          ELSE [num |-> top * sum, den |-> den]

\* generateFallbackResponse: the canned sentence for a blank context, else
\* a sentence built from the context
generateFallbackResponse(question, context) ==
  IF Len(Trim(context)) = 0 THEN CannedAnswer ELSE "Based on the available context"

ErrorOut(why) == [NoOut EXCEPT !.kind = "error", !.error = why]

Called(op, ok) == [op |-> op, ok |-> ok]

\* the MilvusService variants a query service can run on: only the one of
\* ai-query.service.ts has the getAllChunks that queryWithContext calls
MilvusOf(variant) == IF variant = "context" THEN {"m384"} ELSE {"m1536", "m384"}

\* the replies of client.search: results present (a list of hits, maybe
\* empty) or a reply that carries no results
SearchReplies(store) ==
  {[present |-> TRUE, results |-> h] : h \in HitLists(store)}
    \cup {[present |-> FALSE, results |-> <<>>]}

\* MilvusService.searchSimilar: return result.results (milvus.service.ts),
\* return result.results || [] (ai-query.service.ts).  present = FALSE stands
\* for the value undefined.
searchSimilar(milvus, reply) ==
  IF reply.present \/ milvus = "m1536" THEN reply
  ELSE [present |-> TRUE, results |-> <<>>]

\* the position after the await of generateEmbedding: the next statement of
\* the try block, or the catch that ends the request
AfterEmbed_Continues(ok) == "search"

AfterEmbed(ok) == IF ok THEN "search" ELSE "done"

\* the handler in front of each variant of the service
Routes ==
  {<<"local", "askQuestion">>, <<"local", "askQuestionGet">>,
   <<"gemini", "askQuestion">>, <<"gemini", "askQuestionGet">>,
   <<"context", "query">>}

InitQuery ==
  /\ \E route \in Routes : qVariant = route[1] /\ qEntry = route[2]
  /\ qQuestion \in {Undefined, <<>>, <<" ">>, <<"a">>}
  /\ qMilvus \in MilvusOf(qVariant)
  /\ qPc = "received"
  /\ qStore \in {StoreOf(n) : n \in 0..MaxStore}
  /\ qHits = <<>>
  /\ qContext = <<>>
  /\ qCalls = <<>>
  /\ qOut = NoOut
  /\ IdleChunk /\ IdleEmbed /\ IdleIngest /\ IdleColl /\ IdleRest

\* the controller's check: askQuestion (POST) has none, askQuestionGet and
\* query test !question
ControllerRejects(entry, question) ==
  entry \in {"askQuestionGet", "query"} /\ Falsy(question)

QueryReject ==
  /\ qPc = "received"
  /\ ControllerRejects(qEntry, qQuestion)
  /\ qOut' = ErrorOut("validation")
  /\ qPc' = "done"
  /\ UNCHANGED <<qMilvus, qVariant, qEntry, qQuestion, qStore, qHits, qContext, qCalls,
                 chunkVars, embedVars, ingestVars, collVars,
                 pdfVars, reprocessVars, simpleVars>>

QueryAccept ==
  /\ qPc = "received"
  /\ ~ControllerRejects(qEntry, qQuestion)
  /\ qPc' = "embed"
  /\ UNCHANGED <<qMilvus, qVariant, qEntry, qQuestion, qStore, qHits, qContext, qCalls, qOut,
                 chunkVars, embedVars, ingestVars, collVars,
                 pdfVars, reprocessVars, simpleVars>>

\* await this.embeddingsService.generateEmbedding(question) resolves
QueryEmbedOk ==
  /\ qPc = "embed"
  /\ qCalls' = Append(qCalls, Called("embed", TRUE))
  /\ qPc' = AfterEmbed(TRUE)
  /\ UNCHANGED <<qMilvus, qVariant, qEntry, qQuestion, qStore, qHits, qContext, qOut,
                 chunkVars, embedVars, ingestVars, collVars,
                 pdfVars, reprocessVars, simpleVars>>

\* generateEmbedding rejects: only the fallback tier's throw on an undefined
\* text reaches its outer catch
QueryEmbedFails ==
  /\ qPc = "embed"
  /\ qQuestion = Undefined
  /\ qCalls' = Append(qCalls, Called("embed", FALSE))
  /\ qOut' = ErrorOut("embedding")
  /\ qPc' = AfterEmbed(FALSE)
  /\ UNCHANGED <<qMilvus, qVariant, qEntry, qQuestion, qStore, qHits, qContext,
                 chunkVars, embedVars, ingestVars, collVars,
                 pdfVars, reprocessVars, simpleVars>>

\* the context built from the hits
ContextOfHits(variant, hits) ==
  IF variant = "gemini" THEN JoinContext(HitTexts(hits))
  ELSE JoinContext(NonEmptyTexts(HitTexts(hits)))

\* await this.milvusService.searchSimilar(queryEmbedding, 5) resolves; the
\* caller maps over the value, which throws a TypeError into the catch of
\* the try block when the value is undefined
QuerySearchReturns ==
  /\ qPc = "search"
  /\ \E reply \in SearchReplies(qStore) :
       LET found == searchSimilar(qMilvus, reply)
           hits == found.results
       IN IF found.present
          THEN /\ qHits' = hits
               /\ qContext' = ContextOfHits(qVariant, hits)
               /\ qPc' = IF qVariant = "context"
                              /\ Len(ContextOfHits(qVariant, hits)) = 0
                         THEN "scan" ELSE "generate"
               /\ qOut' = qOut
          ELSE /\ qHits' = <<>>
               /\ qContext' = qContext
               /\ qPc' = "done"
               /\ qOut' = ErrorOut("map of undefined")
  /\ qCalls' = Append(qCalls, Called("search", TRUE))
  /\ UNCHANGED <<qMilvus, qVariant, qEntry, qQuestion, qStore,
                 chunkVars, embedVars, ingestVars, collVars,
                 pdfVars, reprocessVars, simpleVars>>

\* client.search throws
QuerySearchFails ==
  /\ qPc = "search"
  /\ qCalls' = Append(qCalls, Called("search", FALSE))
  /\ qOut' = ErrorOut("search")
  /\ qPc' = "done"
  /\ UNCHANGED <<qMilvus, qVariant, qEntry, qQuestion, qStore, qHits, qContext,
                 chunkVars, embedVars, ingestVars, collVars,
                 pdfVars, reprocessVars, simpleVars>>

\* the replies of client.query: the rows, a reply without data, a throw
ScanReplies == {"rows", "noData", "throws"}

\* getAllChunks letting the error of client.query through
getAllChunks_Rethrows(store, reply) ==
  [raised |-> reply = "throws",
   rows |-> IF reply = "rows" THEN SubSeq(store, 1, Min(Len(store), ScanLimit))
            ELSE <<>>]

\* MilvusService.getAllChunks: result.data || [] (at most 100 records), and
\* [] from the catch when client.query throws; it never raises
getAllChunks(store, reply) ==
  [raised |-> FALSE,
   rows |-> IF reply = "rows" THEN SubSeq(store, 1, Min(Len(store), ScanLimit))
            ELSE <<>>]

\* queryWithContext: "If no context found, try to get all chunks as fallback"
QueryScan ==
  /\ qPc = "scan"
  /\ \E reply \in ScanReplies :
       LET allChunks == getAllChunks(qStore, reply) IN
       /\ qCalls' = Append(qCalls, Called("scan", reply # "throws"))
       /\ IF allChunks.raised
          THEN /\ qContext' = qContext
               /\ qPc' = "done"
               /\ qOut' = ErrorOut("scan")
          ELSE /\ qContext' = JoinContext(NonEmptyTexts(allChunks.rows))
               /\ qPc' = "generate"
               /\ qOut' = qOut
  /\ UNCHANGED <<qMilvus, qVariant, qEntry, qQuestion, qStore, qHits,
                 chunkVars, embedVars, ingestVars, collVars,
                 pdfVars, reprocessVars, simpleVars>>

\* the response of a request whose generation call answered
AnsweredOut(variant, hits) ==
  IF variant = "context"
  THEN [NoOut EXCEPT !.kind = "answer", !.answer = "model answer"]
  ELSE [kind |-> "ok", error |-> "", answer |-> "model answer",
        sources |-> IF variant = "gemini" THEN HitTexts(hits)
                    ELSE NonEmptyTexts(HitTexts(hits)),
        confidence |-> calculateConfidence(variant, hits)]

\* the response of a request whose generation call failed: only part_001's
\* generateResponse catches and falls back; generateResponseWithLlama and
\* generateGeminiResponse rethrow and the request fails
GenerationFailedOut(variant, question, context, hits) ==
  IF variant = "local"
  THEN [AnsweredOut(variant, hits) EXCEPT
          !.answer = generateFallbackResponse(question, context)]
  ELSE ErrorOut("generation")

\* the generation endpoint replies with a response text
QueryGenerateOk ==
  /\ qPc = "generate"
  /\ qCalls' = Append(qCalls, Called("generate", TRUE))
  /\ qOut' = AnsweredOut(qVariant, qHits)
  /\ qPc' = "done"
  /\ UNCHANGED <<qMilvus, qVariant, qEntry, qQuestion, qStore, qHits, qContext,
                 chunkVars, embedVars, ingestVars, collVars,
                 pdfVars, reprocessVars, simpleVars>>

\* the generation request throws, times out or replies without a text
QueryGenerateFails ==
  /\ qPc = "generate"
  /\ qCalls' = Append(qCalls, Called("generate", FALSE))
  /\ qOut' = GenerationFailedOut(qVariant, qQuestion, qContext, qHits)
  /\ qPc' = "done"
  /\ UNCHANGED <<qMilvus, qVariant, qEntry, qQuestion, qStore, qHits, qContext,
                 chunkVars, embedVars, ingestVars, collVars,
                 pdfVars, reprocessVars, simpleVars>>

NextQuery ==
  \/ QueryReject
  \/ QueryAccept
  \/ QueryEmbedOk
  \/ QueryEmbedFails
  \/ QuerySearchReturns
  \/ QuerySearchFails
  \/ QueryScan
  \/ QueryGenerateOk
  \/ QueryGenerateFails

SpecQuery == InitQuery /\ [][NextQuery]_vars

(***************************************************************************)
(* Claims about the query path.                                            *)
(***************************************************************************)
\* an empty or whitespace-only question
BlankQuestion(question) == question # Undefined /\ Len(Trim(question)) = 0

MadeCall(op) == \E k \in 1..Len(qCalls) : qCalls[k].op = op

FailedCall(op) == \E k \in 1..Len(qCalls) : qCalls[k].op = op /\ ~qCalls[k].ok

\* C5: for an empty or whitespace-only question no downstream call (embed,
\* search, scan, generate) is ever made, and the request ends in a
\* validation error, on every entry point.
C5_BlankQuestionRejected ==
  BlankQuestion(qQuestion) =>
    /\ qCalls = <<>>
    /\ qPc = "done" => (qOut.kind = "error" /\ qOut.error = "validation")

\* C6: when the search returned zero hits and the collection holds a record,
\* the request scans the collection (getAllChunks) before generating, and the
\* response it returns carries non-empty sources.
C6_ScanFallbackGivesSources ==
  (/\ qPc = "done"
   /\ MadeCall("search") /\ ~FailedCall("search")
   /\ qHits = <<>>
   /\ Len(qStore) > 0) =>
    /\ MadeCall("scan")
    /\ qOut.kind = "ok" /\ qOut.sources # <<>>

\* C7: on an empty corpus (zero hits, nothing to scan) the generation
\* capability is never called, and the response is the canned
\* insufficient-information answer with confidence exactly 0.
C7_EmptyCorpusSkipsGeneration ==
  (qStore = <<>>) =>
    /\ ~MadeCall("generate")
    /\ (qPc = "done" /\ MadeCall("search") /\ ~FailedCall("search")) =>
         /\ qOut.kind = "ok"
         /\ qOut.answer = CannedAnswer
         /\ qOut.confidence.num = 0

\* C8: when the generation call fails after the embedding and the search
\* succeeded, the request still returns a result, with the retrieved sources
\* and the confidence computed from the hits.
C8_GenerationFailureKeepsRetrieval ==
  (qPc = "done" /\ FailedCall("generate")) =>
    /\ qOut.kind = "ok"
    /\ qOut.sources = HitTexts(qHits)
    /\ qOut.confidence = calculateConfidence(qVariant, qHits)

\* the total of the hits' scores (times ScoreScale)
RECURSIVE ScoreTotal(_, _)
ScoreTotal(hits, k) == IF k = 0 THEN 0 ELSE hits[k].score + ScoreTotal(hits, k - 1)

\* the upper end of the variant's confidence scale
ScaleTop(variant) == IF variant = "gemini" THEN 100 ELSE 1

\* C9: the confidence returned lies inside the scale [0, top] (top = 1, or
\* 100 in the percentage variant) for any scores, is 0 for zero hits, and is
\* the mean of the hits' scores times top, clamped into [0, top].
C9_ConfidenceIsClampedMean ==
  qOut.kind = "ok" =>
    LET c == qOut.confidence
        n == Len(qHits)
        total == ScoreTotal(qHits, n)
        top == ScaleTop(qVariant)
    IN /\ c.den > 0
       /\ 0 <= c.num /\ c.num <= top * c.den
       /\ n = 0 => c.num = 0
       /\ (n > 0 /\ total <= 0) => c.num = 0
       /\ (n > 0 /\ total >= n * ScoreScale) => c.num = top * c.den
       /\ (n > 0 /\ total > 0 /\ total < n * ScoreScale) =>
            c.num * n * ScoreScale = top * total * c.den

\* C9's case: a response over hits with a score above 1 and a negative
\* score, whose mean lies strictly inside the scale
C9_Witness ==
  /\ qOut.kind = "ok"
  /\ \E k \in 1..Len(qHits) : qHits[k].score > ScoreScale
  /\ \E k \in 1..Len(qHits) : qHits[k].score < 0
  /\ 0 < qOut.confidence.num
  /\ qOut.confidence.num < ScaleTop(qVariant) * qOut.confidence.den

(***************************************************************************)
(* Ingestion: processAndStoreChunks of TextContextService ("text") and of  *)
(* PdfService ("pdf"), with EmbeddingsService.generateEmbeddings inlined:  *)
(* groups of 5 calls dispatched together, collected by Promise.all, a      *)
(* one-second delay between groups, then one MilvusService.insertChunks.   *)
(***************************************************************************)
BatchSize == 5

\* the ids crypto.randomBytes may produce
RandomIds == {"r1", "r2"}

\* the text of the k-th chunk: the text chunker closes a chunk with ".",
\* the PDF chunker does not
ChunkTextOf(who, k) ==
  [j \in 1..k |-> "a"] \o (IF who = "text" THEN <<".">> ELSE <<>>)

ChunksOf(who, n) == [k \in 1..n |-> ChunkTextOf(who, k)]

\* what generateEmbedding(text) resolves with when the given tier serves
EmbeddingFor(variant, tier, text) ==
  IF tier = "dedicated"
  THEN DedicatedResult(variant, RemoteVector(text, DimOf(variant)))
  ELSE generateSimpleEmbedding(text, DimOf(variant))

\* a record stored by an earlier run
PriorRecord(variant) ==
  [id |-> [random |-> "r0", suffix |-> <<>>], text |-> <<"b", ".">>,
   embedding |-> generateSimpleEmbedding(<<"b", ".">>, DimOf(variant))]

InitIngest ==
  /\ iWho \in {"text", "pdf"}
  /\ iPc = "idle"
  /\ \E n \in 0..MaxChunks :
       /\ iWho = "pdf" => n > 0
       /\ iChunks = ChunksOf(iWho, n)
  /\ iTier \in {"dedicated", "simple"}
  /\ iEmbeddings = <<>>
  /\ iNext = 1
  /\ iPending = {}
  /\ iBatch = <<>>
  /\ eVariant \in {"v1536", "v384"}
  /\ iIndex \in {<<>>, <<PriorRecord(eVariant)>>}
  /\ iInserts = <<>>
  /\ iDelays = 0
  /\ iReport = "none"
  /\ eText = <<>> /\ ePc = "idle" /\ eAttempt = 0
  /\ eResult = <<>> /\ eTier = "none" /\ eLog = <<>>
  /\ IdleChunk /\ IdleQuery /\ IdleColl /\ IdleRest

\* the group's last position with the group's last text left out
GroupEnd_DropsLast(first, n) == Min(first + BatchSize - 2, n)

\* the last position of the group that starts at position first
GroupEnd(first, n) == Min(first + BatchSize - 1, n)

\* if (i + batchSize < texts.length), with i = first - 1: another group follows
DelayFollows_Always(first, n) == TRUE

DelayFollows(first, n) == first - 1 + BatchSize < n

\* processAndStoreChunks(chunks): generateEmbeddings(texts) begins; with no
\* text the loop body never runs and [] is returned at once
IngestStart ==
  /\ iPc = "idle"
  /\ iPc' = IF Len(iChunks) = 0 THEN "embedded" ELSE "dispatch"
  /\ UNCHANGED <<iDelays, iReport, iWho, iChunks, iTier, iEmbeddings, iNext, iPending, iBatch,
                 iIndex, iInserts, chunkVars, embedVars, queryVars, collVars,
                 pdfVars, reprocessVars, simpleVars>>

\* batch.map((text) => this.generateEmbedding(text)): every call of the
\* group is started
IngestDispatch ==
  /\ iPc = "dispatch"
  /\ iPending' = iNext..GroupEnd(iNext, Len(iChunks))
  /\ iBatch' = <<>>
  /\ iPc' = "awaiting"
  /\ UNCHANGED <<iDelays, iReport, iWho, iChunks, iTier, iEmbeddings, iNext, iIndex, iInserts,
                 chunkVars, embedVars, queryVars, collVars,
                 pdfVars, reprocessVars, simpleVars>>

\* one outstanding call resolves with its vector
IngestResolve ==
  /\ iPc = "awaiting"
  /\ \E k \in iPending :
       /\ iPending' = iPending \ {k}
       /\ iBatch' = [j \in (DOMAIN iBatch) \cup {k} |->
                       IF j = k THEN EmbeddingFor(eVariant, iTier, iChunks[k])
                       ELSE iBatch[j]]
  /\ UNCHANGED <<iDelays, iReport, iWho, iPc, iChunks, iTier, iEmbeddings, iNext, iIndex, iInserts,
                 chunkVars, embedVars, queryVars, collVars,
                 pdfVars, reprocessVars, simpleVars>>

\* one outstanding call rejects: Promise.all rejects, generateEmbeddings
\* rethrows and processAndStoreChunks ends before building any record
IngestReject ==
  /\ iPc = "awaiting"
  /\ \E k \in iPending : iPending' = iPending \ {k}
  /\ iPc' = "embedFailed"
  /\ UNCHANGED <<iDelays, iReport, iWho, iChunks, iTier, iEmbeddings, iNext, iBatch, iIndex, iInserts,
                 chunkVars, embedVars, queryVars, collVars,
                 pdfVars, reprocessVars, simpleVars>>

\* the group's vectors reversed
BatchInOrder_Reversed(batch, first, last) ==
  [j \in 1..(last - first + 1) |-> batch[last - j + 1]]

\* Promise.all's result: the group's vectors in the order of the texts
BatchInOrder(batch, first, last) ==
  [j \in 1..(last - first + 1) |-> batch[first + j - 1]]

\* every call of the group has resolved: embeddings.push(...batchEmbeddings),
\* then the delay when another group follows, else the loop ends
IngestCollect ==
  /\ iPc = "awaiting"
  /\ iPending = {}
  /\ iEmbeddings' = iEmbeddings \o BatchInOrder(iBatch, iNext, GroupEnd(iNext, Len(iChunks)))
  /\ iBatch' = <<>>
  /\ iPc' = IF DelayFollows(iNext, Len(iChunks)) THEN "delay" ELSE "embedded"
  /\ UNCHANGED <<iDelays, iReport, iWho, iChunks, iTier, iNext, iPending, iIndex, iInserts,
                 chunkVars, embedVars, queryVars, collVars,
                 pdfVars, reprocessVars, simpleVars>>

\* the one-second timer between groups fires: i += batchSize
IngestDelay ==
  /\ iPc = "delay"
  /\ iNext' = iNext + BatchSize
  /\ iDelays' = iDelays + 1
  /\ iPc' = "dispatch"
  /\ UNCHANGED <<iReport, iWho, iChunks, iTier, iEmbeddings, iPending, iBatch, iIndex, iInserts,
                 chunkVars, embedVars, queryVars, collVars,
                 pdfVars, reprocessVars, simpleVars>>

\* the id of chunk k: a fresh random id per chunk in the text service, the
\* document id and the chunk's position in the PDF service
ChunkIds(who, n) ==
  IF who = "text"
  THEN {[k \in 1..n |-> [random |-> r[k], suffix |-> <<>>]] : r \in [1..n -> RandomIds]}
  ELSE {[k \in 1..n |-> [random |-> d, suffix |-> <<"chunk", k - 1>>]] : d \in RandomIds}

\* the ChunkData handed to insertChunks
ChunkDataOf(ids, chunks, embeddings) ==
  [k \in 1..Len(chunks) |->
     [id |-> ids[k], text |-> chunks[k], embedding |-> embeddings[k]]]

\* client.insert replacing what the collection held
InsertInto_Replacing(index, chunkData) == chunkData

\* client.insert({collection_name, data}): the records are added to the
\* collection (the store does not look for an equal id or text)
InsertInto(index, chunkData) == index \o chunkData

\* await this.milvusService.insertChunks(chunkData): client.insert stores
\* the batch, or throws and stores nothing
IngestInsert ==
  /\ iPc = "embedded"
  /\ \E ids \in ChunkIds(iWho, Len(iChunks)), ok \in BOOLEAN :
       LET chunkData == ChunkDataOf(ids, iChunks, iEmbeddings) IN
       /\ iInserts' = Append(iInserts, chunkData)
       /\ iIndex' = IF ok THEN InsertInto(iIndex, chunkData) ELSE iIndex
       /\ iPc' = IF ok THEN "stored" ELSE "insertFailed"
  /\ UNCHANGED <<iDelays, iReport, iWho, iChunks, iTier, iEmbeddings, iNext, iPending, iBatch,
                 chunkVars, embedVars, queryVars, collVars,
                 pdfVars, reprocessVars, simpleVars>>

\* the source cannot be read: fs.readFileSync throws in
\* loadAndProcessTextFile, pdfParse rejects in processPdf
IngestReadFails ==
  /\ iPc = "idle"
  /\ iPc' = "readFailed"
  /\ UNCHANGED <<iDelays, iReport, iWho, iChunks, iTier, iEmbeddings, iNext, iPending,
                 iBatch, iIndex, iInserts, chunkVars, embedVars, queryVars, collVars,
                 pdfVars, reprocessVars, simpleVars>>

\* the positions at which a run has ended
EndedRuns == {"stored", "readFailed", "embedFailed", "insertFailed"}

\* what the caller of a run that ended at pc is told.  loadAndProcessTextFile
\* catches every error and only logs it, so reprocessTextFile resolves and
\* the reprocess handlers return their success message; processPdf rethrows
\* and the upload handler answers with an error.
ReportOf(who, pc) ==
  IF who = "text" THEN "success"
  ELSE IF pc = "stored" THEN "success" ELSE "error"

\* the run's caller (POST reprocess, POST upload) gets its answer
IngestReport ==
  /\ iPc \in EndedRuns
  /\ iReport = "none"
  /\ iReport' = ReportOf(iWho, iPc)
  /\ UNCHANGED <<iDelays, iWho, iPc, iChunks, iTier, iEmbeddings, iNext, iPending,
                 iBatch, iIndex, iInserts, chunkVars, embedVars, queryVars, collVars,
                 pdfVars, reprocessVars, simpleVars>>

NextIngest ==
  \/ IngestStart
  \/ IngestReadFails
  \/ IngestDispatch
  \/ IngestResolve
  \/ IngestReject
  \/ IngestCollect
  \/ IngestDelay
  \/ IngestInsert
  \/ IngestReport

SpecIngest == InitIngest /\ [][NextIngest]_vars

(***************************************************************************)
(* Claims about ingestion.                                                 *)
(***************************************************************************)
\* the texts and the vectors of a batch, without the ids
Pairs(batch) ==
  [k \in 1..Len(batch) |-> <<batch[k].text, batch[k].embedding>>]

\* chunk k's text with the embedding of chunk k's text, for every chunk
ExpectedPairs ==
  [k \in 1..Len(iChunks) |->
     <<iChunks[k], EmbeddingFor(eVariant, iTier, iChunks[k])>>]

\* C10: in a run insertChunks is called at most once, only when every chunk
\* has its embedding, with one record per chunk that pairs chunk k's text
\* with the embedding of chunk k's text; the collection changes only by that
\* batch being appended; and when an embedding fails, insertChunks has not
\* been called and the collection is left as it was.
C10_InsertOnceAfterAllEmbeddings ==
  [][/\ Len(iInserts') <= 1
     /\ iInserts' # iInserts =>
          /\ iPc = "embedded"
          /\ Len(iEmbeddings) = Len(iChunks)
          /\ Pairs(iInserts'[1]) = ExpectedPairs
     /\ iIndex' # iIndex =>
          /\ iInserts' # iInserts
          /\ iIndex' = iIndex \o iInserts'[1]
     /\ iPc' = "embedFailed" => (iInserts' = <<>> /\ iIndex' = iIndex)
    ]_vars

\* C10's cases: a run of two groups stored by its one insert (the first
\* group collected, the second dispatched after the delay)
C10_Witness ==
  /\ iPc = "stored"
  /\ Len(iChunks) > BatchSize
  /\ Len(iInserts) = 1
  /\ Len(iIndex) > Len(iChunks)

\* C11: a text-file run that stored nothing (unreadable file, failed
\* embedding, failed insert) is not reported to its caller as a success.
C11_FailureSurfaced ==
  (iWho = "text" /\ iPc \in EndedRuns \ {"stored"} /\ iReport # "none") =>
    iReport = "error"

\* C15: the array generateEmbeddings builds holds, at every moment, the
\* embeddings of the first texts in the order of the texts, and when the call
\* has resolved it holds exactly one vector per text (also for no text and
\* for a last group of fewer than 5 texts), whatever the order in which the
\* calls of a group resolved.
C15_OneVectorPerTextInOrder ==
  /\ Len(iEmbeddings) <= Len(iChunks)
  /\ \A k \in 1..Len(iEmbeddings) :
       iEmbeddings[k] = EmbeddingFor(eVariant, iTier, iChunks[k])
  /\ iPc \in {"embedded", "stored", "insertFailed"} =>
       Len(iEmbeddings) = Len(iChunks)

\* C15's case: a full group and a last group of one text, resolved, with
\* different vectors for different texts
C15_Witness ==
  /\ iPc = "embedded"
  /\ Len(iChunks) = BatchSize + 1
  /\ Len(iEmbeddings) = BatchSize + 1
  /\ iEmbeddings[1] # iEmbeddings[2]
  /\ iEmbeddings[BatchSize] # iEmbeddings[BatchSize + 1]

\* the number of groups n texts are cut into
GroupCount(n) == (n + BatchSize - 1) \div BatchSize

\* C16: at most 5 generateEmbedding calls are outstanding; the outstanding
\* calls all belong to one group, and they were started only when every call
\* of every earlier group had resolved (their vectors are collected) and one
\* delay per earlier group had elapsed; there is one delay between two
\* groups and none after the last group.
C16_BoundedConcurrency ==
  /\ Cardinality(iPending) <= BatchSize
  /\ iPending # {} =>
       /\ iPending \subseteq iNext..GroupEnd(iNext, Len(iChunks))
       /\ Len(iEmbeddings) = iNext - 1
       /\ iDelays = (iNext - 1) \div BatchSize
  /\ iDelays <= Max(GroupCount(Len(iChunks)), 1) - 1
  /\ iPc \in {"embedded", "stored", "insertFailed"} =>
       iDelays = Max(GroupCount(Len(iChunks)), 1) - 1

\* C16's case: the call of the second group is outstanding, after the five
\* calls of the first group resolved and the delay elapsed
C16_Witness ==
  /\ iPc = "awaiting"
  /\ iNext = BatchSize + 1
  /\ iPending # {}
  /\ iDelays = 1
  /\ Len(iEmbeddings) = BatchSize

\* C18: when client.search resolves, for an empty collection or with a reply
\* that carries no results, searchSimilar hands its caller a sequence, so
\* that mapping over the hits does not fail the request.
C18_SearchReturnsSequence ==
  (MadeCall("search") /\ ~FailedCall("search")) =>
    ~(qOut.kind = "error" /\ qOut.error = "map of undefined")

\* C19: getAllChunks never raises: a request that reached the scan is never
\* failed by it; after a scan whose store query threw, the context is empty
\* and the request goes on to the generation call.
C19_ScanNeverRaises ==
  MadeCall("scan") =>
    /\ ~(qOut.kind = "error" /\ qOut.error = "scan")
    /\ qPc \in {"generate", "done"}
    /\ FailedCall("scan") =>
         /\ qContext = <<>>
         /\ qPc = "done" => MadeCall("generate")

\* C19's case: records are stored, the search gave no context, the store
\* query of the scan threw, and the request was answered all the same
C19_Witness ==
  /\ qPc = "done"
  /\ Len(qStore) > 0
  /\ FailedCall("scan")
  /\ MadeCall("generate") /\ ~FailedCall("generate")
  /\ qOut.kind = "answer"

IsPrefix(a, b) == Len(a) <= Len(b) /\ a = SubSeq(b, 1, Len(a))

\* the downstream operations of the request so far, in order
CallOps == [k \in 1..Len(qCalls) |-> qCalls[k].op]

\* C20: the stages run in the order embed, search, (scan,) generate, each
\* started only after the embedding and the search before it succeeded; when
\* the embedding or the search fails, the request ends with an error and
\* nothing is invoked after the failed call.
C20_StagesInOrder ==
  /\ \/ IsPrefix(CallOps, <<"embed", "search", "generate">>)
     \/ IsPrefix(CallOps, <<"embed", "search", "scan", "generate">>)
  /\ \A k \in 1..(Len(qCalls) - 1) :
       qCalls[k].op \in {"embed", "search"} => qCalls[k].ok
  /\ (FailedCall("embed") \/ FailedCall("search")) =>
       (qPc = "done" /\ qOut.kind = "error")

\* C20's case: the embedding succeeded, the search failed, and the request
\* ended with an error after those two calls
C20_Witness ==
  /\ qPc = "done"
  /\ CallOps = <<"embed", "search">>
  /\ FailedCall("search")
  /\ qOut.kind = "error"

(***************************************************************************)
(* MilvusService.createCollection, called by onModuleInit at every start   *)
(* of the application, against a server whose collection outlives the      *)
(* application.  Each client operation either resolves or throws; a throw  *)
(* leaves createCollection at once.  Between two calls the collection may  *)
(* receive records (insertChunks) or be dropped (deleteCollection).        *)
(***************************************************************************)
\* configService.get('VECTOR_DIMENSION', 1536) / (..., 384)
CollDim(milvus) == IF milvus = "m1536" THEN D1536 ELSE D384

\* if (!collectionExists) with the test left out
NeedsCreate_Always(collectionExists) == TRUE

\* if (!collectionExists)
NeedsCreate(collectionExists) == ~collectionExists

\* createCollection is not running
CollAtRest == mPc \in {"idle", "returned", "failed"}

InitColl ==
  /\ qMilvus \in {"m1536", "m384"}
  /\ mPc = "idle"
  /\ mCalls = 0
  /\ mFound = "unknown"
  /\ mOps = <<>>
  /\ mExists \in BOOLEAN
  /\ mDim = IF mExists THEN CollDim(qMilvus) ELSE 0
  /\ mIndexed \in BOOLEAN
  /\ mExists \/ ~mIndexed
  /\ mLoaded = FALSE
  /\ mRecords \in 0..MaxStore
  /\ mExists \/ mRecords = 0
  /\ qVariant = "local" /\ qEntry = "none" /\ qQuestion = <<>> /\ qPc = "idle"
  /\ qStore = <<>> /\ qHits = <<>> /\ qContext = <<>> /\ qCalls = <<>> /\ qOut = NoOut
  /\ IdleChunk /\ IdleEmbed /\ IdleIngest /\ IdleRest

\* onModuleInit: await this.createCollection()
CollStart ==
  /\ CollAtRest
  /\ mCalls < MaxCalls
  /\ mCalls' = mCalls + 1
  /\ mPc' = "list"
  /\ mFound' = "unknown"
  /\ mOps' = <<>>
  /\ UNCHANGED <<mExists, mDim, mIndexed, mLoaded, mRecords,
                 chunkVars, embedVars, queryVars, ingestVars,
                 pdfVars, reprocessVars, simpleVars>>

\* await this.client.listCollections(); collections.data.some(...)
CollList ==
  /\ mPc = "list"
  /\ \E ok \in BOOLEAN :
       IF ok
       THEN /\ mFound' = IF mExists THEN "present" ELSE "absent"
            /\ mOps' = Append(mOps, "listCollections")
            /\ mPc' = IF NeedsCreate(mExists) THEN "create" ELSE "load"
       ELSE /\ mPc' = "failed"
            /\ UNCHANGED <<mFound, mOps>>
  /\ UNCHANGED <<mCalls, mExists, mDim, mIndexed, mLoaded, mRecords,
                 chunkVars, embedVars, queryVars, ingestVars,
                 pdfVars, reprocessVars, simpleVars>>

\* await this.client.createCollection({...fields}): a new, empty collection
\* (a collection already there is left as it is)
CollCreate ==
  /\ mPc = "create"
  /\ \E ok \in BOOLEAN :
       IF ok
       THEN /\ mOps' = Append(mOps, "createCollection")
            /\ mPc' = "index"
            /\ mExists' = TRUE
            /\ mDim' = IF mExists THEN mDim ELSE CollDim(qMilvus)
            /\ mLoaded' = (mExists /\ mLoaded)
            /\ UNCHANGED <<mIndexed, mRecords>>
       ELSE /\ mPc' = "failed"
            /\ UNCHANGED <<mOps, mExists, mDim, mIndexed, mLoaded, mRecords>>
  /\ UNCHANGED <<mCalls, mFound, chunkVars, embedVars, queryVars, ingestVars,
                 pdfVars, reprocessVars, simpleVars>>

\* await this.client.createIndex({... IVF_FLAT, IP, nlist 1024})
CollIndex ==
  /\ mPc = "index"
  /\ \E ok \in BOOLEAN :
       IF ok
       THEN /\ mOps' = Append(mOps, "createIndex")
            /\ mPc' = "load"
            /\ mIndexed' = TRUE
       ELSE /\ mPc' = "failed"
            /\ UNCHANGED <<mOps, mIndexed>>
  /\ UNCHANGED <<mCalls, mFound, mExists, mDim, mLoaded, mRecords,
                 chunkVars, embedVars, queryVars, ingestVars,
                 pdfVars, reprocessVars, simpleVars>>

\* await this.client.loadCollection({...}); then createCollection returns
CollLoad ==
  /\ mPc = "load"
  /\ \E ok \in BOOLEAN :
       IF ok
       THEN /\ mOps' = Append(mOps, "loadCollection")
            /\ mPc' = "returned"
            /\ mLoaded' = TRUE
       ELSE /\ mPc' = "failed"
            /\ UNCHANGED <<mOps, mLoaded>>
  /\ UNCHANGED <<mCalls, mFound, mExists, mDim, mIndexed, mRecords,
                 chunkVars, embedVars, queryVars, ingestVars,
                 pdfVars, reprocessVars, simpleVars>>

\* insertChunks between two starts: client.insert stores a record
CollInsert ==
  /\ mPc = "returned"
  /\ mExists
  /\ mRecords < MaxStore
  /\ mRecords' = mRecords + 1
  /\ UNCHANGED <<mPc, mCalls, mFound, mOps, mExists, mDim, mIndexed, mLoaded,
                 chunkVars, embedVars, queryVars, ingestVars,
                 pdfVars, reprocessVars, simpleVars>>

\* deleteCollection: client.dropCollection
CollDrop ==
  /\ CollAtRest
  /\ mExists
  /\ mExists' = FALSE
  /\ mDim' = 0
  /\ mIndexed' = FALSE
  /\ mLoaded' = FALSE
  /\ mRecords' = 0
  /\ UNCHANGED <<mPc, mCalls, mFound, mOps,
                 chunkVars, embedVars, queryVars, ingestVars,
                 pdfVars, reprocessVars, simpleVars>>

NextColl ==
  \/ CollStart
  \/ CollList
  \/ CollCreate
  \/ CollIndex
  \/ CollLoad
  \/ CollInsert
  \/ CollDrop

SpecColl == InitColl /\ [][NextColl]_vars

\* the step is taken by createCollection (not by an insert or a drop)
CollStep == mPc \notin {"idle", "returned", "failed"} \/ mPc' = "list"

\* C17: in any sequence of calls, createCollection and createIndex are
\* invoked only by a call that found the collection absent; a call that
\* found it present changes neither the collection, nor its index, nor its
\* records; and a call returns only from a resolved loadCollection, its last
\* operation.
C17_CreateCollectionIdempotent ==
  [][CollStep =>
       /\ Len(mOps') > Len(mOps) =>
            (mOps'[Len(mOps')] \in {"createCollection", "createIndex"} =>
               mFound = "absent")
       /\ (mExists' # mExists \/ mIndexed' # mIndexed \/ mDim' # mDim) =>
            mFound = "absent"
       /\ mFound' = "present" =>
            /\ mExists' = mExists /\ mIndexed' = mIndexed /\ mDim' = mDim
            /\ mRecords' = mRecords
       /\ mRecords' = mRecords
       /\ (mPc' = "returned" /\ mPc # "returned") =>
            /\ mLoaded'
            /\ mOps'[Len(mOps')] = "loadCollection"
    ]_vars

\* C17's case: a second call found the collection created by the first,
\* with a record stored since, created nothing and returned after loading
C17_Witness ==
  /\ mCalls = 2
  /\ mPc = "returned"
  /\ mFound = "present"
  /\ mOps = <<"listCollections", "loadCollection">>
  /\ mExists /\ mIndexed /\ mLoaded
  /\ mRecords > 0

\* C21: every chunk id handed to the index is a random value and nothing
\* else: no id carries a part derived from a counter or from the chunk's
\* position.
C21_ChunkIdsAreRandom ==
  \A b \in 1..Len(iInserts) :
    \A k \in 1..Len(iInserts[b]) : iInserts[b][k].id.suffix = <<>>

(***************************************************************************)
(* PdfService: processPdf and deleteDocument over the in-memory registry   *)
(* this.documents and the records of the index.  processPdf is cut at its  *)
(* awaits (pdfParse, processAndStoreChunks' generateEmbeddings and         *)
(* insertChunks); deleteDocument may run between any two of its steps.     *)
(* A document id is doc_ + 8 random bytes + Date.now(): the k-th id        *)
(* generated is written k.  chunkSize (default 500) is scaled down.        *)
(***************************************************************************)
PdfChunkSize == 1

\* pdfData.text of the uploaded files
PdfTexts == {<<>>, <<" ">>, <<"a">>, <<"a", ".", "b">>}

\* if (!textContent || textContent.trim().length === 0), the test for
\* whitespace left out
NoReadableText_EmptyOnly(textContent) == textContent = <<>>

\* if (!textContent || textContent.trim().length === 0)
NoReadableText(textContent) == textContent = <<>> \/ Len(Trim(textContent)) = 0

\* chunkCount: 0, never updated
ChunkCountOf_Initial(chunks) == 0

\* document.chunkCount = chunks.length
ChunkCountOf(chunks) == Len(chunks)

\* this.documents.set(documentId, document)
DocumentsSet(docs, doc) == {d \in docs : d.id # doc.id} \cup {doc}

\* this.documents.get(id) is defined
DocumentsHas(docs, id) == \E d \in docs : d.id = id

\* this.documents.delete(id), every entry deleted
DocumentsDelete_All(docs, id) == {}

\* this.documents.delete(id)
DocumentsDelete(docs, id) == {d \in docs : d.id # id}

\* the ids of the chunks of a document: `${documentId}_chunk_${chunkIndex}`
PdfChunkIdsOf(doc, chunks) == [k \in 1..Len(chunks) |-> <<doc.id, k - 1>>]

InitPdf ==
  /\ pPc = "idle" /\ pText = <<>> /\ pDoc = NoDoc /\ pChunks = <<>> /\ pOps = <<>>
  /\ pResult = "none" /\ pDocs = {} /\ pStored = <<>> /\ pNextId = 0
  /\ pDels = 0 /\ pDelId = 0 /\ pDelResult = "none"
  /\ IdleChunk /\ IdleEmbed /\ IdleQuery /\ IdleIngest /\ IdleColl
  /\ IdleReprocess /\ IdleSimple

\* processPdf(buffer, filename): await pdfParse(buffer) is issued
PdfStart ==
  /\ pPc = "idle"
  /\ pNextId < MaxDocs
  /\ pPc' = "parse"
  /\ pOps' = <<"parse">>
  /\ pResult' = "none"
  /\ pText' = <<>> /\ pDoc' = NoDoc /\ pChunks' = <<>>
  /\ UNCHANGED <<pDocs, pStored, pNextId, pDels, pDelId, pDelResult,
                 chunkVars, embedVars, queryVars, ingestVars, collVars,
                 reprocessVars, simpleVars>>

\* pdfParse rejects: catch, throw new Error('Failed to process PDF: ...')
PdfParseFails ==
  /\ pPc = "parse"
  /\ pPc' = "idle"
  /\ pResult' = "error"
  /\ UNCHANGED <<pText, pDoc, pChunks, pOps, pDocs, pStored, pNextId, pDels, pDelId,
                 pDelResult, chunkVars, embedVars, queryVars, ingestVars, collVars,
                 reprocessVars, simpleVars>>

\* pdfParse resolves with a text that is empty or blank:
\* throw new Error('PDF contains no readable text'), caught and rethrown
PdfNoText ==
  /\ pPc = "parse"
  /\ \E text \in PdfTexts :
       /\ NoReadableText(text)
       /\ pText' = text
  /\ pPc' = "idle"
  /\ pResult' = "error"
  /\ UNCHANGED <<pDoc, pChunks, pOps, pDocs, pStored, pNextId, pDels, pDelId,
                 pDelResult, chunkVars, embedVars, queryVars, ingestVars, collVars,
                 reprocessVars, simpleVars>>

\* pdfParse resolves with a readable text: generateDocumentId, chunkText,
\* document.chunkCount = chunks.length, then processAndStoreChunks begins
\* with await generateEmbeddings(texts)
PdfChunked ==
  /\ pPc = "parse"
  /\ \E text \in PdfTexts :
       LET chunks == PdfChunkText(text, PdfChunkSize) IN
       /\ ~NoReadableText(text)
       /\ pText' = text
       /\ pChunks' = chunks
       /\ pDoc' = [id |-> pNextId + 1, chunkCount |-> ChunkCountOf(chunks)]
  /\ pNextId' = pNextId + 1
  /\ pOps' = pOps \o <<"chunk", "embed">>
  /\ pPc' = "embed"
  /\ UNCHANGED <<pResult, pDocs, pStored, pDels, pDelId, pDelResult,
                 chunkVars, embedVars, queryVars, ingestVars, collVars,
                 reprocessVars, simpleVars>>

\* generateEmbeddings rejects: processPdf's catch rethrows
PdfEmbedFails ==
  /\ pPc = "embed"
  /\ pPc' = "idle"
  /\ pResult' = "error"
  /\ UNCHANGED <<pText, pDoc, pChunks, pOps, pDocs, pStored, pNextId, pDels, pDelId,
                 pDelResult, chunkVars, embedVars, queryVars, ingestVars, collVars,
                 reprocessVars, simpleVars>>

\* generateEmbeddings resolves: await this.milvusService.insertChunks(chunks)
PdfEmbedded ==
  /\ pPc = "embed"
  /\ pPc' = "insert"
  /\ pOps' = Append(pOps, "insert")
  /\ UNCHANGED <<pText, pDoc, pChunks, pResult, pDocs, pStored, pNextId, pDels, pDelId,
                 pDelResult, chunkVars, embedVars, queryVars, ingestVars, collVars,
                 reprocessVars, simpleVars>>

\* client.insert throws: nothing is stored, processPdf's catch rethrows
PdfInsertFails ==
  /\ pPc = "insert"
  /\ pPc' = "idle"
  /\ pResult' = "error"
  /\ UNCHANGED <<pText, pDoc, pChunks, pOps, pDocs, pStored, pNextId, pDels, pDelId,
                 pDelResult, chunkVars, embedVars, queryVars, ingestVars, collVars,
                 reprocessVars, simpleVars>>

\* client.insert resolves: the chunks are records of the index
PdfInserted ==
  /\ pPc = "insert"
  /\ pStored' = pStored \o PdfChunkIdsOf(pDoc, pChunks)
  /\ pPc' = "register"
  /\ UNCHANGED <<pText, pDoc, pChunks, pOps, pResult, pDocs, pNextId, pDels, pDelId,
                 pDelResult, chunkVars, embedVars, queryVars, ingestVars, collVars,
                 reprocessVars, simpleVars>>

\* this.documents.set(documentId, document); return document
PdfRegister ==
  /\ pPc = "register"
  /\ pDocs' = DocumentsSet(pDocs, pDoc)
  /\ pOps' = Append(pOps, "set")
  /\ pResult' = "document"
  /\ pPc' = "idle"
  /\ UNCHANGED <<pText, pDoc, pChunks, pStored, pNextId, pDels, pDelId, pDelResult,
                 chunkVars, embedVars, queryVars, ingestVars, collVars,
                 reprocessVars, simpleVars>>

\* deleteDocument(id): false for an unknown id, else the entry is deleted
\* and true returned; the index is not touched
PdfDelete ==
  /\ pDels < MaxCalls
  /\ \E id \in 1..MaxDocs :
       /\ pDelId' = id
       /\ IF DocumentsHas(pDocs, id)
          THEN /\ pDocs' = DocumentsDelete(pDocs, id)
               /\ pDelResult' = "true"
          ELSE /\ pDocs' = pDocs
               /\ pDelResult' = "false"
  /\ pDels' = pDels + 1
  /\ UNCHANGED <<pPc, pText, pDoc, pChunks, pOps, pResult, pStored, pNextId,
                 chunkVars, embedVars, queryVars, ingestVars, collVars,
                 reprocessVars, simpleVars>>

NextPdf ==
  \/ PdfStart
  \/ PdfParseFails
  \/ PdfNoText
  \/ PdfChunked
  \/ PdfEmbedFails
  \/ PdfEmbedded
  \/ PdfInsertFails
  \/ PdfInserted
  \/ PdfRegister
  \/ PdfDelete

SpecPdf == InitPdf /\ [][NextPdf]_vars

\* C22: a processPdf call whose extracted text is empty or blank ends with
\* an error after its one pdfParse: nothing but the parse was invoked (no
\* second parse, no chunking, no embedding, no insert), and the registry and
\* the index are as they were.
C22_NoTextIsTerminal ==
  [][(pPc = "parse" /\ pPc' # "parse" /\ Len(Trim(pText')) = 0) =>
       /\ pPc' = "idle"
       /\ pResult' = "error"
       /\ pOps' = <<"parse">>
       /\ pDocs' = pDocs
       /\ pStored' = pStored
       /\ pNextId' = pNextId
    ]_vars

\* C22's case: a call on a whitespace-only text has ended with an error
\* after its parse, with the document of an earlier call still registered
C22_Witness ==
  /\ pPc = "idle"
  /\ pResult = "error"
  /\ pText = <<" ">>
  /\ pOps = <<"parse">>
  /\ pDocs # {}

\* the number of records of the index that belong to the document
RecordsOf(stored, id) ==
  Cardinality({k \in 1..Len(stored) : stored[k][1] = id})

\* C29: every document of the registry has as many records in the index as
\* its chunkCount says (at least one); the registry gains a document only
\* by the step that follows the successful insert of that document's
\* chunks; and a processPdf call that ends with an error leaves the
\* registry as it was.
C29_RegistryMatchesIndex ==
  [][/\ \A d \in pDocs' :
          d.chunkCount > 0 /\ RecordsOf(pStored', d.id) = d.chunkCount
     /\ ~(pDocs' \subseteq pDocs) =>
          (pPc = "register" /\ pDocs' = pDocs \cup {pDoc})
     /\ (pPc # "idle" /\ pPc' = "idle" /\ pResult' = "error") => pDocs' = pDocs
    ]_vars

\* C29's case: two documents registered, of one chunk and of two chunks,
\* with their three records in the index
C29_Witness ==
  /\ Cardinality(pDocs) = 2
  /\ \E d \in pDocs : d.chunkCount = 2
  /\ \E d \in pDocs : d.chunkCount = 1
  /\ Len(pStored) = 3

\* C30: deleteDocument(id) removes exactly the entry of a known id and
\* returns true, returns false and changes nothing for an unknown id, and
\* never changes the records of the index.
C30_DeleteTouchesRegistryOnly ==
  [][pDels' # pDels =>
       /\ pStored' = pStored
       /\ IF DocumentsHas(pDocs, pDelId')
          THEN /\ pDelResult' = "true"
               /\ pDocs' = {d \in pDocs : d.id # pDelId'}
          ELSE /\ pDelResult' = "false"
               /\ pDocs' = pDocs
    ]_vars

\* C30's case: of two registered documents the first was deleted, the
\* second is still registered and the records of the first are still in
\* the index
C30_Witness ==
  /\ pDelResult = "true"
  /\ pDelId = 1
  /\ ~DocumentsHas(pDocs, 1)
  /\ DocumentsHas(pDocs, 2)
  /\ RecordsOf(pStored, 1) > 0

(***************************************************************************)
(* reprocessTextFile called again and again over an unchanged file (the    *)
(* text cText, chunked with cSize and cOverlap).  One action is one call:  *)
(* loadAndProcessTextFile reads, chunks, embeds and inserts, and any       *)
(* failure on the way leaves the collection as it was.                     *)
(***************************************************************************)
\* the contents of about_me.txt
ReprocessTexts ==
  {<<>>, <<"!">>, <<"a">>, <<"a", ".", "b">>, <<"a", ".", "a">>, <<"a", "b", ".", "a">>}

InitReprocess ==
  /\ cText \in ReprocessTexts
  /\ cSize \in 1..MaxChunkSize
  /\ cOverlap \in 0..MaxOverlap
  /\ cWho = "text"
  /\ cChunks = chunkText(cText, cSize, cOverlap)
  /\ rCalls = 0
  /\ rRuns = 0
  /\ IdleEmbed /\ IdleQuery /\ IdleIngest /\ IdleColl /\ IdlePdf /\ IdleSimple

\* a call whose run reaches the end: the chunks of the file, each with a
\* fresh id and its embedding, are inserted
ReprocessStores ==
  /\ rCalls < MaxCalls
  /\ \E ids \in ChunkIds("text", Len(cChunks)) :
       iIndex' = InsertInto(iIndex,
                   ChunkDataOf(ids, cChunks,
                     [k \in 1..Len(cChunks) |->
                        EmbeddingFor(eVariant, iTier, cChunks[k])]))
  /\ rCalls' = rCalls + 1
  /\ rRuns' = rRuns + 1
  /\ UNCHANGED <<chunkVars, embedVars, queryVars, collVars, pdfVars, simpleVars,
                 iWho, iPc, iChunks, iTier, iEmbeddings, iNext, iPending, iBatch,
                 iInserts, iDelays, iReport>>

\* a call whose run fails (the file cannot be read, an embedding or the
\* insert fails): the error is logged and nothing is stored
ReprocessFails ==
  /\ rCalls < MaxCalls
  /\ rCalls' = rCalls + 1
  /\ UNCHANGED <<rRuns, chunkVars, embedVars, queryVars, ingestVars, collVars,
                 pdfVars, simpleVars>>

NextReprocess == ReprocessStores \/ ReprocessFails

SpecReprocess == InitReprocess /\ [][NextReprocess]_vars

\* how many elements of the sequence have the given text
CountText(texts, t) == Cardinality({k \in 1..Len(texts) : texts[k] = t})

\* the texts of the records, in order
IndexTexts(index) == [k \in 1..Len(index) |-> index[k].text]

\* C23: a run never removes or rewrites a stored record (the collection
\* only grows at its end), and after n successful runs over the unchanged
\* file the collection is n complete sets of the file's chunks, one after
\* the other: it holds every chunk text n times as often as the file does.
C23_RerunsAppend ==
  [][/\ IsPrefix(iIndex, iIndex')
     /\ Len(iIndex') = rRuns' * Len(cChunks)
     /\ \A k \in 1..Len(iIndex') :
          iIndex'[k].text = cChunks[((k - 1) % Len(cChunks)) + 1]
     /\ \A j \in 1..Len(cChunks) :
          CountText(IndexTexts(iIndex'), cChunks[j]) = rRuns' * CountText(cChunks, cChunks[j])
    ]_vars

\* C23's case: two runs stored the two chunks of the file, with a failed
\* run among the three calls
C23_Witness ==
  /\ rCalls = 3
  /\ rRuns = 2
  /\ Len(cChunks) = 2
  /\ Len(iIndex) = 4
  /\ iIndex[1].text = iIndex[3].text

(***************************************************************************)
(* Chunking a chunk again.                                                 *)
(***************************************************************************)
\* the string without the terminal characters and the white space it ends with
RECURSIVE StripTrailingPunctuation(_)
StripTrailingPunctuation(s) ==
  IF s # <<>> /\ (IsTerminal(s[Len(s)]) \/ IsSpace(s[Len(s)]))
  THEN StripTrailingPunctuation(SubSeq(s, 1, Len(s) - 1))
  ELSE s

\* chunkText(c, chunkSize, overlap) is the one chunk c, up to the
\* punctuation at its end
RechunksToItself(c, chunkSize, overlap) ==
  LET again == chunkText(c, chunkSize, overlap) IN
    /\ Len(again) = 1
    /\ StripTrailingPunctuation(again[1]) = StripTrailingPunctuation(c)

\* C24: every chunk that chunkText produced and that is no longer than
\* chunkSize is chunked again into exactly one chunk with the same content
\* up to trailing punctuation, the chunks that begin with overlap text
\* included.
C24_RechunkIdempotent ==
  cWho = "text" =>
    \A k \in 1..Len(cChunks) :
      Len(cChunks[k]) <= cSize => RechunksToItself(cChunks[k], cSize, cOverlap)

(***************************************************************************)
(* generateSimpleEmbedding called again and again on one service: hCalls   *)
(* is the history of the calls, each with its text and the vector it       *)
(* returned.                                                               *)
(***************************************************************************)
InitSimple ==
  /\ eVariant \in {"v1536", "v384"}
  /\ eText = <<>> /\ ePc = "idle" /\ eAttempt = 0
  /\ eResult = <<>> /\ eTier = "none" /\ eLog = <<>>
  /\ hCalls = <<>>
  /\ IdleChunk /\ IdleQuery /\ IdleIngest /\ IdleColl /\ IdlePdf /\ IdleReprocess

\* this.generateSimpleEmbedding(text)
SimpleCall ==
  /\ Len(hCalls) < MaxCalls
  /\ \E text \in EmbedTexts :
       hCalls' = Append(hCalls,
                   [text |-> text,
                    vector |-> generateSimpleEmbedding(text, DimOf(eVariant))])
  /\ UNCHANGED <<chunkVars, embedVars, queryVars, ingestVars, collVars, pdfVars,
                 reprocessVars>>

NextSimple == SimpleCall

SpecSimple == InitSimple /\ [][NextSimple]_vars

TierOrder(variant) ==
  IF variant = "v1536" THEN <<"dedicated", "llama", "simple">>
  ELSE <<"dedicated", "simple">>

\* the tier invocations of one attempt, in the order they were made
TiersOfAttempt(attempt) ==
  SelectSeq(eLog, LAMBDA e : e.op # "wait" /\ e.attempt = attempt)

\* the tiers that come before the given one
TiersBefore(variant, tier) ==
  LET order == TierOrder(variant)
      at == CHOOSE k \in 1..Len(order) : order[k] = tier
  IN SubSeq(order, 1, at - 1)

\* C26: in every attempt the tiers were invoked in the order dedicated,
\* generative, local hash, each one only after every earlier tier of the
\* attempt raised or gave no usable vector; a tier that gave a usable vector
\* is the last invocation of the call, and a tier about to be invoked has
\* all the earlier tiers of the attempt behind it, failed.
C26_TiersInOrder ==
  /\ \A a \in 1..Retries :
       LET tiers == TiersOfAttempt(a) IN
         /\ IsPrefix([k \in 1..Len(tiers) |-> tiers[k].op], TierOrder(eVariant))
         /\ \A k \in 1..(Len(tiers) - 1) : tiers[k].why # "none"
  /\ \A k \in 1..Len(eLog) :
       (eLog[k].op # "wait" /\ eLog[k].why = "none") =>
         (k = Len(eLog) /\ ePc = "returned")
  /\ ePc \in {"dedicated", "llama", "simple"} =>
       LET tiers == TiersOfAttempt(eAttempt) IN
         /\ [k \in 1..Len(tiers) |-> tiers[k].op] = TiersBefore(eVariant, ePc)
         /\ \A k \in 1..Len(tiers) : tiers[k].why # "none"

\* C26's case: the dedicated tier gave no embedding, the generative tier
\* too few numbers, and the local tier returned the vector
C26_Witness ==
  /\ eVariant = "v1536"
  /\ ePc = "returned"
  /\ eTier = "simple"
  /\ Len(eLog) = 3
  /\ eLog[1].op = "dedicated" /\ eLog[1].why = "noEmbedding"
  /\ eLog[2].op = "llama" /\ eLog[2].why = "fewNumbers"
  /\ eLog[3].op = "simple" /\ eLog[3].why = "none"

(***************************************************************************)
(* The vectors of the Embedder against the dimension of the collection.    *)
(***************************************************************************)
\* the MilvusService that is deployed with an EmbeddingsService: the one
\* whose default VECTOR_DIMENSION is the dimension the embedder's fallback
\* tier is written for
MilvusFor(variant) == IF variant = "v1536" THEN "m1536" ELSE "m384"

\* C27: a vector that generateEmbedding returned, which is what insertChunks
\* and searchSimilar hand to the index, has the dimension the collection is
\* created with, whichever tier served the request.
C27_VectorMatchesCollection ==
  ePc = "returned" => Len(eResult) = CollDim(MilvusFor(eVariant))

(***************************************************************************)
(* Process start.  AppModule provides MilvusService and                    *)
(* TextContextService, and each has an onModuleInit hook: the first        *)
(* connects and runs createCollection, the second runs                     *)
(* loadAndProcessTextFile.  MilvusService comes first among the providers  *)
(* and its hook is taken to start first; after that neither hook waits for *)
(* the other in the code, so their steps (each ends at an await)           *)
(* interleave.                                                             *)
(***************************************************************************)
\* how many chunks about_me.txt gives: none, one, or more than one group
StartChunkCounts == {0, 1, MaxChunks}

InitStart ==
  /\ qMilvus \in {"m1536", "m384"}
  /\ mPc = "idle"
  /\ mCalls = 0
  /\ mFound = "unknown"
  /\ mOps = <<>>
  /\ mExists \in BOOLEAN
  /\ mDim = IF mExists THEN CollDim(qMilvus) ELSE 0
  /\ mIndexed = mExists
  /\ mLoaded = FALSE
  /\ mRecords = 0
  /\ qVariant = "local" /\ qEntry = "none" /\ qQuestion = <<>> /\ qPc = "idle"
  /\ qStore = <<>> /\ qHits = <<>> /\ qContext = <<>> /\ qCalls = <<>> /\ qOut = NoOut
  /\ iWho = "text"
  /\ iPc = "idle"
  /\ \E n \in StartChunkCounts : iChunks = ChunksOf("text", n)
  /\ iTier = "dedicated"
  /\ iEmbeddings = <<>>
  /\ iNext = 1
  /\ iPending = {}
  /\ iBatch = <<>>
  /\ iIndex = <<>>
  /\ iInserts = <<>>
  /\ iDelays = 0
  /\ iReport = "none"
  /\ eVariant = IF qMilvus = "m1536" THEN "v1536" ELSE "v384"
  /\ eText = <<>> /\ ePc = "idle" /\ eAttempt = 0
  /\ eResult = <<>> /\ eTier = "none" /\ eLog = <<>>
  /\ IdleChunk /\ IdleRest

\* MilvusService.onModuleInit: await this.connect(); await
\* this.createCollection() (once, at process start)
MilvusInitStart == mCalls = 0 /\ CollStart

\* TextContextService.onModuleInit: await this.loadAndProcessTextFile()
TextInitStart == mCalls = 1 /\ IngestStart

\* ... where fs.readFileSync throws
TextInitReadFails == mCalls = 1 /\ IngestReadFails

NextStart ==
  \/ MilvusInitStart
  \/ CollList
  \/ CollCreate
  \/ CollIndex
  \/ CollLoad
  \/ TextInitStart
  \/ TextInitReadFails
  \/ IngestDispatch
  \/ IngestResolve
  \/ IngestReject
  \/ IngestCollect
  \/ IngestDelay
  \/ IngestInsert

SpecStart == InitStart /\ [][NextStart]_vars

\* C28: the startup ingestion issues its insert only after
\* MilvusService.onModuleInit has returned, that is after the collection was
\* listed, created where absent, and loaded.
C28_InsertAfterCollectionReady ==
  [][iInserts' # iInserts => mPc = "returned"]_vars

====
